---- MODULE Spec2Model ----
(***************************************************************************)
(* Model of lib/client.js (class Client): the connection supervisor, the  *)
(* session handshake, the command correlator and the outbound queue.       *)
(*                                                                         *)
(* A transport connection (lib/websocket-connection.js) is identified by   *)
(* the value of _connectionCounter at the time _createConnection built it. *)
(* The transport class itself is not part of the sources at hand: its      *)
(* behaviour (Transport* definitions) follows the specification, sections  *)
(* 2, 4.1 and 6.                                                           *)
(***************************************************************************)
EXTENDS Integers, Sequences, FiniteSets, TLC

VARIABLES
    retryCount,         \* _connectionOptions.retryCount (-1 = 'always')
    connection,         \* _connection: 0 = null, else id of the connection
    connectionCounter,  \* _connectionCounter
    sessionId,          \* _sessionId: 0 = null
    ready,              \* _readyTimestamp !== null
    nextCommandId,      \* _nextCommandId
    callbacks,          \* _callbacks: set of the ids which have a callback
    queue,              \* _queue
    transports,         \* state of every WebSocketConnection created so far
    timers,             \* connections whose delayed connect (setTimeout) is pending
    sent,               \* frames handed to WebSocketConnection.send, in order
    events,             \* events emitted by the client, in order
    calls,              \* invocations of the callback of every command id, in order
    issued,             \* number of calls of execute() so far
    thrown,             \* an exception has come out of _processMessage
    listeners,          \* names of the events which have a listener
    globalListener,     \* _globalListener
    retryDelay,         \* _retryDelay
    options,            \* options given to the constructor: retryCount, retryDelay, pingTimeout
    built,              \* "no" before the constructor, then "yes", or "threw"
    queryParams,        \* _queryParams: names of the query parameters of the uri
    uri                 \* the uri given to the last WebSocketConnection created

vars == <<retryCount, connection, connectionCounter, sessionId, ready,
          nextCommandId, callbacks, queue, transports, timers, sent, events,
          calls, issued, thrown, listeners, globalListener, retryDelay,
          options, built, queryParams, uri>>

----------------------------------------------------------------------------
(* Bounds of the model *)

\* maximum number of transport connections created by the client
MaxConn == 3
\* maximum number of calls of execute()
MaxCommands == 3
\* maximum number of 'ready' events delivered to a listener
MaxReady == 2
\* largest finite retryCount option
MaxRetry == 2
\* maximum number of notification events delivered to listeners
MaxEvents == 2
\* maximum number of connection attempts of one transport when retryCount is 'always'
MaxAttempts == MaxRetry + 1

ConnIds == 1..MaxConn
\* session ids given by the server
Sids == {1}
\* session ids given by the caller or by the server, where the uri matters
SessionIds == {1, 2}
\* names of the query parameters which the uri of the caller may have
QueryNames == {"expires", "timeout", "apiKey"}
\* value of _connectionOptions.retryCount for 'always'
Always == -1
RetryCounts == {Always} \cup (0..MaxRetry)

----------------------------------------------------------------------------
(* Options of the constructor *)

\* how long the client waits before it reconnects after a disconnection
RETRY_DELAY == 10000
\* smallest retryDelay and smallest pingTimeout which the constructor accepts
MinRetryDelay == 1000
MinPingTimeout == 1000

\* the value of an option: undefined, the string 'always', a text which does
\* not start with a number, or a number, given in tenths (15 is 1.5)
Undefined == [kind |-> "undefined", tenths |-> 0]
AlwaysText == [kind |-> "always", tenths |-> 0]
Text == [kind |-> "text", tenths |-> 0]
Number(t) == [kind |-> "number", tenths |-> t]

\* parseInt(value): the integer part of a number, NaN for a text
ParseInt(v) ==
    IF v.kind = "number"
    THEN [nan |-> FALSE,
          int |-> IF v.tenths >= 0 THEN v.tenths \div 10 ELSE -((-v.tenths) \div 10)]
    ELSE [nan |-> TRUE, int |-> 0]

\* the options object, but for autoConnect and globalListener
Options(count, delay, ping) ==
    [retryCount |-> count, retryDelay |-> delay, pingTimeout |-> ping]

\* the constructor throws because of options.retryCount
RetryCountThrows(o) ==
    /\ o.retryCount.kind \notin {"undefined", "always"}
    /\ ParseInt(o.retryCount).nan \/ ParseInt(o.retryCount).int < 0

\* the constructor throws because of options.retryDelay
RetryDelayThrows(o) ==
    /\ o.retryDelay.kind # "undefined"
    /\ ParseInt(o.retryDelay).nan \/ ParseInt(o.retryDelay).int < MinRetryDelay

\* the constructor throws because of options.pingTimeout
PingTimeoutThrows(o) ==
    /\ o.pingTimeout.kind # "undefined"
    /\ ParseInt(o.pingTimeout).nan \/ ParseInt(o.pingTimeout).int < MinPingTimeout

\* the constructor throws
OptionsThrow(o) == RetryCountThrows(o) \/ RetryDelayThrows(o) \/ PingTimeoutThrows(o)

\* _connectionOptions.retryCount; when the option is not given the transport
\* retries always
RetryCountOf(o) ==
    IF o.retryCount.kind \in {"undefined", "always"}
    THEN Always
    ELSE ParseInt(o.retryCount).int

\* _retryDelay
RetryDelayOf(o) ==
    IF o.retryDelay.kind = "undefined" THEN RETRY_DELAY ELSE ParseInt(o.retryDelay).int

\* the option which gives the retry count n
CountOption(n) == IF n = Always THEN AlwaysText ELSE Number(10 * n)

----------------------------------------------------------------------------
(* Transport connection (WebSocketConnection) *)

TransportStates == {"none", "new", "connecting", "waiting", "connected", "failed", "disconnected"}

\* new WebSocketConnection(uri, options)
TransportNew == [state |-> "new", attempts |-> 0]

\* a transport which has not been created yet
TransportNone == [state |-> "none", attempts |-> 0]

\* WebSocketConnection.connect(): starts the first attempt of a new transport
TransportConnect(t) ==
    IF t.state = "new" THEN [state |-> "connecting", attempts |-> 1] ELSE t

\* WebSocketConnection.connect() of a transport which does not ignore the call
\* once it has been closed: it starts an attempt all the same
TransportConnectAgain(t) ==
    IF t.state \in {"new", "disconnected"}
    THEN [state |-> "connecting", attempts |-> 1]
    ELSE t

\* a transport which has been closed
TransportClosed == [state |-> "disconnected", attempts |-> 0]

\* WebSocketConnection.disconnect(): closes, cancelling any scheduled retry
TransportDisconnect(t) ==
    IF t.state = "none" THEN t ELSE TransportClosed

\* WebSocketConnection.isConnected()
TransportIsConnected(t) == t.state = "connected"

\* a transport which is connecting, waiting to retry, or open
TransportActive(t) == t.state \in {"connecting", "waiting", "connected"}

\* whether the transport retries after its attempt number 'attempts' has failed
TransportRetry(retryable, attempts, count) ==
    retryable /\ (count = Always \/ attempts <= count)

\* the attempt in progress succeeds
TransportOpened(t) == [t EXCEPT !.state = "connected"]

\* the attempt in progress fails: a retry is scheduled, or the transport gives up
TransportFailed(t, retry) == [t EXCEPT !.state = IF retry THEN "waiting" ELSE "failed"]

\* the retry delay has elapsed: the next attempt starts
TransportRetried(t) == [state |-> "connecting", attempts |-> t.attempts + 1]

\* the error of a failed attempt, as classified by the transport
ErrorOf(retryable) == IF retryable THEN "retryable" ELSE "fatal"

\* the data of the 'disconnected' event of the transport: the close of an open
\* connection by the peer, and its close after a keepalive (ping) timeout
PeerClose == [code |-> 1000, reason |-> "closed"]
KeepaliveTimeout == [code |-> 1006, reason |-> "timeout"]
CloseData == {PeerClose, KeepaliveTimeout}

----------------------------------------------------------------------------
(* Frames and events *)

\* outbound frame {m, p, i}; n is the rank of the execute() call, i = 0 : no 'i'
Frame(n, i) == [n |-> n, i |-> i]

\* an event and its data; a field which is 0, "" or FALSE is absent
Event(type, id, attempts, error, sid, isNew) ==
    [type |-> type, connectionId |-> id, attempts |-> attempts, error |-> error,
     sessionId |-> sid, isNew |-> isNew]

\* the 'disconnected' event of connection id, with the data of the transport
DisconnectedEvent(id, data) ==
    [type |-> "disconnected", connectionId |-> id,
     code |-> data.code, reason |-> data.reason]

\* the payload 'd' of a notification frame: an object, or anything else
\* (undefined, null, a string, a number), on which no property can be set
Payload == [object |-> TRUE, pair |-> "BTC-USD"]
NoPayload == [object |-> FALSE, pair |-> ""]
Payloads == {Payload, NoPayload}

\* the kinds 'n' of the notification frames
Kinds == {"ticker", "trades"}

\* the event of a notification: its name and its data
NotificationEvent(type, data) == [type |-> type, data |-> data]

\* inbound frames, after JSON.parse: a field which is 0 / FALSE is undefined
HelloMessage(sid, isNew) ==
    [json |-> TRUE, hello |-> TRUE, sid |-> sid, isNew |-> isNew,
     n |-> FALSE, r |-> FALSE, e |-> FALSE, i |-> 0, kind |-> "", d |-> NoPayload]
ResultMessage(i) ==
    [json |-> TRUE, hello |-> FALSE, sid |-> 0, isNew |-> FALSE,
     n |-> FALSE, r |-> TRUE, e |-> FALSE, i |-> i, kind |-> "", d |-> NoPayload]
ErrorMessage(i) ==
    [json |-> TRUE, hello |-> FALSE, sid |-> 0, isNew |-> FALSE,
     n |-> FALSE, r |-> FALSE, e |-> TRUE, i |-> i, kind |-> "", d |-> NoPayload]
NotificationMessage(kind, d) ==
    [json |-> TRUE, hello |-> FALSE, sid |-> 0, isNew |-> FALSE,
     n |-> TRUE, r |-> FALSE, e |-> FALSE, i |-> 0, kind |-> kind, d |-> d]
UnsupportedMessage ==
    [json |-> TRUE, hello |-> FALSE, sid |-> 0, isNew |-> FALSE,
     n |-> FALSE, r |-> FALSE, e |-> FALSE, i |-> 0, kind |-> "", d |-> NoPayload]
InvalidMessage ==
    [json |-> FALSE, hello |-> FALSE, sid |-> 0, isNew |-> FALSE,
     n |-> FALSE, r |-> FALSE, e |-> FALSE, i |-> 0, kind |-> "", d |-> NoPayload]

\* ids given to commands
CommandIds == 1..MaxCommands

\* ids carried by inbound result / error frames
ReplyIds == 1..(MaxCommands + 1)

Messages ==
    {HelloMessage(sid, isNew) : sid \in Sids, isNew \in BOOLEAN}
    \cup {ResultMessage(i) : i \in ReplyIds}
    \cup {ErrorMessage(i) : i \in ReplyIds}
    \cup {NotificationMessage(kind, d) : kind \in Kinds, d \in Payloads}
    \cup {UnsupportedMessage, InvalidMessage}

----------------------------------------------------------------------------
(* The client, as operators over a record s of its fields *)

State ==
    [connection |-> connection, connectionCounter |-> connectionCounter,
     sessionId |-> sessionId, ready |-> ready, nextCommandId |-> nextCommandId,
     callbacks |-> callbacks, queue |-> queue, transports |-> transports,
     timers |-> timers, sent |-> sent, events |-> events, calls |-> calls,
     issued |-> issued, thrown |-> thrown, listeners |-> listeners,
     globalListener |-> globalListener, queryParams |-> queryParams, uri |-> uri]

\* EventEmitter.emit: the event reaches the listeners of its name, if any
Emit(s, ev) ==
    IF ev.type \in s.listeners THEN [s EXCEPT !.events = Append(@, ev)] ELSE s

\* WebSocketConnection.send, called by the client on connection c with the
\* serialized frame; queued = TRUE when the frame comes from the queue
TransportSend(s, c, frame, queued) ==
    [s EXCEPT !.sent = Append(@, [frame |-> frame,
                                  open |-> TransportIsConnected(s.transports[c]),
                                  queued |-> queued])]

\* query parameters which are sent for the first connection only
FirstOnly == {"expires", "timeout"}

\* a uri: the base uri, the 'sid' parameter (0 = none) and the names of the
\* other query parameters
Uri(sid, params) == [sid |-> sid, params |-> params]

\* the base uri alone
BaseUri == Uri(0, {})

\* _getUri which sends every query parameter for every connection
GetUri_AlwaysAll(s) ==
    IF s.sessionId # 0 THEN Uri(s.sessionId, s.queryParams) ELSE BaseUri

\* _getUri()
GetUri(s) ==
    IF s.sessionId # 0
    THEN Uri(s.sessionId, {p \in s.queryParams : ~(p \in FirstOnly /\ s.ready)})
    ELSE BaseUri

\* _createConnection which also restarts the command ids
CreateConnection_ResetIds(s, delayed) ==
    LET counter == s.connectionCounter + 1
        s1 == [s EXCEPT !.connectionCounter = counter,
                        !.transports[counter] = TransportNew,
                        !.connection = counter,
                        !.uri = GetUri(s),
                        !.nextCommandId = 1]
    IN  IF delayed
        THEN [s1 EXCEPT !.timers = @ \cup {counter}]
        ELSE [s1 EXCEPT !.transports[counter] = TransportConnect(@)]

\* _createConnection which gives the id of the previous connection again
CreateConnection_SameId(s, delayed) ==
    LET counter == IF s.connectionCounter = 0 THEN 1 ELSE s.connectionCounter
        s1 == [s EXCEPT !.connectionCounter = counter,
                        !.transports[counter] = TransportNew,
                        !.connection = counter,
                        !.uri = GetUri(s)]
    IN  IF delayed
        THEN [s1 EXCEPT !.timers = @ \cup {counter}]
        ELSE [s1 EXCEPT !.transports[counter] = TransportConnect(@)]

\* _createConnection(delay): delayed = TRUE when a delay is given
CreateConnection(s, delayed) ==
    LET counter == s.connectionCounter + 1
        s1 == [s EXCEPT !.connectionCounter = counter,
                        !.transports[counter] = TransportNew,
                        !.connection = counter,
                        !.uri = GetUri(s)]
    IN  IF delayed
        THEN [s1 EXCEPT !.timers = @ \cup {counter}]
        ELSE [s1 EXCEPT !.transports[counter] = TransportConnect(@)]

\* callback of the setTimeout of _createConnection, for connection c
DelayedConnect(s, c) ==
    LET s1 == [s EXCEPT !.timers = @ \ {c}]
    IN  IF s1.connection = 0
        THEN s1
        ELSE [s1 EXCEPT !.transports[c] = TransportConnect(@)]

\* callback of the setTimeout of _createConnection, for connection c, when the
\* transport does not ignore connect() once closed
DelayedConnectAgain(s, c) ==
    LET s1 == [s EXCEPT !.timers = @ \ {c}]
    IN  IF s1.connection = 0
        THEN s1
        ELSE [s1 EXCEPT !.transports[c] = TransportConnectAgain(@)]

\* connect() which does not look at _connection
ClientConnect_NoGuard(s) == CreateConnection(s, FALSE)

\* connect()
ClientConnect(s) ==
    IF s.connection # 0 THEN s ELSE CreateConnection(s, FALSE)

\* reconnect() which does not disconnect the connection it replaces
ClientReconnect_NoDisconnect(s) ==
    IF s.connection = 0 THEN s ELSE CreateConnection(s, FALSE)

\* reconnect() which creates a connection even when the client has none
ClientReconnect_Always(s) ==
    IF s.connection = 0
    THEN CreateConnection(s, FALSE)
    ELSE CreateConnection(
            [s EXCEPT !.transports[s.connection] = TransportDisconnect(@)], FALSE)

\* reconnect()
ClientReconnect(s) ==
    IF s.connection = 0
    THEN s
    ELSE CreateConnection(
            [s EXCEPT !.transports[s.connection] = TransportDisconnect(@)], FALSE)

\* disconnect() which forgets the connection without disconnecting it
ClientDisconnect_NoClose(s) ==
    IF s.connection = 0 THEN s ELSE [s EXCEPT !.connection = 0]

\* disconnect() which also forgets that the session has been ready
ClientDisconnect_ClearsReady(s) ==
    IF s.connection = 0
    THEN s
    ELSE [s EXCEPT !.connection = 0,
                   !.transports[s.connection] = TransportDisconnect(@),
                   !.ready = FALSE]

\* disconnect() which also drops the frames of the queue
ClientDisconnect_DropsQueue(s) ==
    IF s.connection = 0
    THEN s
    ELSE [s EXCEPT !.connection = 0,
                   !.transports[s.connection] = TransportDisconnect(@),
                   !.queue = <<>>]

\* disconnect()
ClientDisconnect(s) ==
    IF s.connection = 0
    THEN s
    ELSE [s EXCEPT !.connection = 0,
                   !.transports[s.connection] = TransportDisconnect(@)]

\* _queueMessages(list), for a list of one frame
QueueMessages(s, frame) == [s EXCEPT !.queue = Append(@, frame)]

\* _send which does not wait for the first 'hello'
Send_NoReadyCheck(s, frame) ==
    IF s.connection = 0
    THEN CreateConnection(QueueMessages(s, frame), FALSE)
    ELSE IF ~TransportIsConnected(s.transports[s.connection])
    THEN QueueMessages(s, frame)
    ELSE TransportSend(s, s.connection, frame, FALSE)

\* _send which does not create the connection which is missing
Send_NoLazyConnect(s, frame) ==
    IF s.connection = 0
    THEN QueueMessages(s, frame)
    ELSE IF ~TransportIsConnected(s.transports[s.connection])
    THEN QueueMessages(s, frame)
    ELSE IF ~s.ready
    THEN QueueMessages(s, frame)
    ELSE TransportSend(s, s.connection, frame, FALSE)

\* _send(list), for a list of one frame
Send(s, frame) ==
    IF s.connection = 0
    THEN CreateConnection(QueueMessages(s, frame), FALSE)
    ELSE IF ~TransportIsConnected(s.transports[s.connection])
    THEN QueueMessages(s, frame)
    ELSE IF ~s.ready
    THEN QueueMessages(s, frame)
    ELSE TransportSend(s, s.connection, frame, FALSE)

\* execute which gives an id to the frame but does not keep the callback
Execute_Unregistered(s, withCb) ==
    LET n == s.issued + 1
        s1 == [s EXCEPT !.issued = n]
    IN  IF withCb
        THEN Send([s1 EXCEPT !.nextCommandId = @ + 1], Frame(n, s.nextCommandId))
        ELSE Send(s1, Frame(n, 0))

\* execute(command, params, cb): withCb = TRUE when cb is given
Execute(s, withCb) ==
    LET n == s.issued + 1
        s1 == [s EXCEPT !.issued = n]
    IN  IF withCb
        THEN Send([s1 EXCEPT !.nextCommandId = @ + 1,
                             !.callbacks = @ \cup {s.nextCommandId}],
                  Frame(n, s.nextCommandId))
        ELSE Send(s1, Frame(n, 0))

RECURSIVE SendAll(_, _, _)
\* the loop of _processQueue: sends frames[k..] on connection c
SendAll(s, c, k) ==
    IF k > Len(s.queue)
    THEN s
    ELSE SendAll(TransportSend(s, c, s.queue[k], TRUE), c, k + 1)

\* _processQueue which sends the frames of the queue and keeps them there
ProcessQueue_KeepsQueue(s) ==
    IF Len(s.queue) = 0
    THEN s
    ELSE IF s.connection = 0
    THEN s
    ELSE SendAll(s, s.connection, 1)

\* _processQueue()
ProcessQueue(s) ==
    IF Len(s.queue) = 0
    THEN s
    ELSE IF s.connection = 0
    THEN s
    ELSE [SendAll(s, s.connection, 1) EXCEPT !.queue = <<>>]

\* what a listener of 'ready' does when it is called: it calls execute() once
\* for each member of does, with a callback (TRUE) or without (FALSE), and
\* then returns, or throws
Listener(does, throws) == [does |-> does, throws |-> throws]

\* a listener which does nothing
Silent == Listener(<<>>, FALSE)

\* the listener of the README: subscribeToTickers, subscribeToOrderBooks and
\* subscribeToTrades, without callback
ReadmeListener == Listener(<<FALSE, FALSE, FALSE>>, FALSE)

\* the listeners which make n calls at most
ListenersUpTo(n) ==
    {Listener(does, throws) :
        does \in UNION {[1..k -> BOOLEAN] : k \in 0..n},
        throws \in BOOLEAN}

\* the listeners which make no more calls than the model has commands
Listeners == ListenersUpTo(MaxCommands)

RECURSIVE ListenerCalls(_, _, _)
\* the calls of execute() of a listener, from call number k on
ListenerCalls(s, does, k) ==
    IF k > Len(does)
    THEN s
    ELSE ListenerCalls(Execute(s, does[k]), does, k + 1)

\* the listener of 'ready', if any, runs inside emit('ready'); when it throws,
\* the exception comes out of emit
ReadyListener(s, listen) ==
    IF "ready" \notin s.listeners
    THEN s
    ELSE [ListenerCalls(s, listen.does, 1) EXCEPT !.thrown = listen.throws]

\* 'hello' branch which emits 'ready' for the first handshake only
ProcessHello_OnlyFirst(s, m, listen) ==
    LET s1 == [s EXCEPT !.sessionId = m.sid]
        s2 == IF ~s1.ready
              THEN ReadyListener(
                      Emit([s1 EXCEPT !.ready = TRUE],
                           Event("ready", 0, 0, "", m.sid, m.isNew)),
                      listen)
              ELSE s1
    IN  IF s2.thrown THEN s2 ELSE ProcessQueue(s2)

\* _processMessage, 'hello' branch: an exception of the listener of 'ready'
\* leaves the try block before _processQueue()
ProcessHello(s, m, listen) ==
    LET s1 == [s EXCEPT !.sessionId = m.sid]
        s2 == IF ~s1.ready \/ m.isNew
              THEN ReadyListener(
                      Emit([s1 EXCEPT !.ready = TRUE],
                           Event("ready", 0, 0, "", m.sid, m.isNew)),
                      listen)
              ELSE s1
    IN  IF s2.thrown THEN s2 ELSE ProcessQueue(s2)

\* reply processing which leaves the callback registered
ProcessReply_KeepCallback(s, m, kind, throws) ==
    IF m.i \notin s.callbacks
    THEN s
    ELSE [s EXCEPT !.calls[m.i] = Append(@, kind),
                   !.thrown = throws]

\* reply processing which does not check that the id has a callback
ProcessReply_NoLookup(s, m, kind, throws) ==
    IF m.i \notin CommandIds
    THEN s
    ELSE [s EXCEPT !.callbacks = @ \ {m.i},
                   !.calls[m.i] = Append(@, kind),
                   !.thrown = throws]

\* _processResultMessage / _processErrorMessage : kind is "result" or "error";
\* throws = TRUE when the callback throws, and the exception is thrown again
ProcessReply(s, m, kind, throws) ==
    IF m.i \notin s.callbacks
    THEN s
    ELSE [s EXCEPT !.callbacks = @ \ {m.i},
                   !.calls[m.i] = Append(@, kind),
                   !.thrown = throws]

\* _processNotificationMessage: setting data.d.notification throws a TypeError
\* when d is not an object
ProcessNotification(s, m) ==
    IF ~s.globalListener
    THEN Emit(s, NotificationEvent(m.kind, m.d))
    ELSE IF ~m.d.object
    THEN [s EXCEPT !.thrown = TRUE]
    ELSE Emit(s, NotificationEvent("notification", [notification |-> m.kind] @@ m.d))

\* the catch clause of _processMessage: the exception stops there
Catch(s) == [s EXCEPT !.thrown = FALSE]

\* _processMessage which does not wait for the first 'hello'
ProcessMessage_NoReadyCheck(s, m, listen, throws) ==
    IF ~m.json THEN Catch(s)
    ELSE IF m.hello THEN Catch(ProcessHello(s, m, listen))
    ELSE IF m.n THEN Catch(ProcessNotification(s, m))
    ELSE IF m.r THEN Catch(ProcessReply(s, m, "result", throws))
    ELSE IF m.e THEN Catch(ProcessReply(s, m, "error", throws))
    ELSE s

\* _processMessage without its catch clause: the exception of JSON.parse
\* comes out
ProcessMessage_NoCatch(s, m, listen, throws) ==
    IF ~m.json THEN [s EXCEPT !.thrown = TRUE]
    ELSE IF m.hello THEN Catch(ProcessHello(s, m, listen))
    ELSE IF ~s.ready THEN s
    ELSE IF m.n THEN Catch(ProcessNotification(s, m))
    ELSE IF m.r THEN Catch(ProcessReply(s, m, "result", throws))
    ELSE IF m.e THEN Catch(ProcessReply(s, m, "error", throws))
    ELSE s

\* _processMessage: listen is what the listener of 'ready' does, throws = TRUE
\* when the callback of a command throws
ProcessMessage(s, m, listen, throws) ==
    IF ~m.json THEN Catch(s)
    ELSE IF m.hello THEN Catch(ProcessHello(s, m, listen))
    ELSE IF ~s.ready THEN s
    ELSE IF m.n THEN Catch(ProcessNotification(s, m))
    ELSE IF m.r THEN Catch(ProcessReply(s, m, "result", throws))
    ELSE IF m.e THEN Catch(ProcessReply(s, m, "error", throws))
    ELSE s

\* handler of the 'connected' event of connection c
OnConnected(s, c) == Emit(s, Event("connected", c, 0, "", 0, FALSE))

\* handler of 'disconnected' which connects the next connection without delay
OnDisconnected_NoDelay(s, c, data) ==
    CreateConnection(Emit(s, DisconnectedEvent(c, data)), FALSE)

\* handler of 'disconnected' which leaves the reconnection to the caller
OnDisconnected_NoReconnect(s, c, data) ==
    Emit(s, DisconnectedEvent(c, data))

\* handler of the 'disconnected' event of connection c
OnDisconnected(s, c, data) ==
    CreateConnection(Emit(s, DisconnectedEvent(c, data)), TRUE)

\* handler of 'connectionError' which does not look at err.retry
OnConnectionError_AlwaysRetry(s, c, retry, attempts, error) ==
    Emit(s, Event("connectionError", c, attempts, error, 0, FALSE))

\* handler of the 'connectionError' event of connection c
\* (err = {retry, attempts, error})
OnConnectionError(s, c, retry, attempts, error) ==
    IF retry
    THEN Emit(s, Event("connectionError", c, attempts, error, 0, FALSE))
    ELSE Emit(s, Event("terminated", c, attempts, error, 0, FALSE))

----------------------------------------------------------------------------
(* Steps *)

\* number of events named type in the log
Heard(log, type) == Cardinality({k \in 1..Len(log) : log[k].type = type})

\* the fields of the client become those of s
Assign(s) ==
    /\ connection' = s.connection
    /\ connectionCounter' = s.connectionCounter
    /\ sessionId' = s.sessionId
    /\ ready' = s.ready
    /\ nextCommandId' = s.nextCommandId
    /\ callbacks' = s.callbacks
    /\ queue' = s.queue
    /\ transports' = s.transports
    /\ timers' = s.timers
    /\ sent' = s.sent
    /\ events' = s.events
    /\ calls' = s.calls
    /\ issued' = s.issued
    /\ thrown' = s.thrown
    /\ queryParams' = s.queryParams
    /\ uri' = s.uri

\* the step which leads to the client state s, within the bounds of the model
Commit(s) ==
    /\ s.connectionCounter <= MaxConn
    /\ s.issued <= MaxCommands
    /\ Heard(s.events, "ready") <= MaxReady
    /\ Assign(s)
    /\ UNCHANGED <<retryCount, listeners, globalListener, retryDelay, options, built>>

\* the state after the constructor, which calls connect() when autoConnect is
\* true, for a uri with the query parameters 'query' and the parameter
\* sid = uriSid, and the option sessionId = optionSid (0 = not given); the
\* option comes after the uri
ConstructedWith(query, uriSid, optionSid, autoConnect, heard, global) ==
    LET s0 == [connection |-> 0, connectionCounter |-> 0,
               sessionId |-> IF optionSid # 0 THEN optionSid ELSE uriSid,
               ready |-> FALSE, nextCommandId |-> 1, callbacks |-> {},
               queue |-> <<>>, transports |-> [c \in ConnIds |-> TransportNone],
               timers |-> {}, sent |-> <<>>, events |-> <<>>,
               calls |-> [i \in CommandIds |-> <<>>],
               issued |-> 0, thrown |-> FALSE, listeners |-> heard,
               globalListener |-> global, queryParams |-> query, uri |-> BaseUri]
    IN  IF autoConnect THEN ClientConnect(s0) ELSE s0

\* the state after the constructor, for a uri without query
Constructed(autoConnect, heard, global) ==
    ConstructedWith({}, 0, 0, autoConnect, heard, global)

\* the names of the events about the connection
ConnectionEvents == {"connected", "disconnected", "connectionError", "terminated"}

\* a client built with one of the retryCount options 'counts' and one of the
\* globalListener options 'globals', to which the caller then adds listeners
\* for the events 'heard'
Start(counts, heard, globals) ==
    /\ \E n \in counts : options = Options(CountOption(n), Undefined, Undefined)
    /\ ~OptionsThrow(options)
    /\ built = "yes"
    /\ retryCount = RetryCountOf(options)
    /\ retryDelay = RetryDelayOf(options)
    /\ listeners = heard
    /\ globalListener \in globals
    /\ \E autoConnect \in BOOLEAN :
         LET s == Constructed(autoConnect, heard, globalListener)
         IN  /\ connection = s.connection
             /\ connectionCounter = s.connectionCounter
             /\ sessionId = s.sessionId
             /\ ready = s.ready
             /\ nextCommandId = s.nextCommandId
             /\ callbacks = s.callbacks
             /\ queue = s.queue
             /\ transports = s.transports
             /\ timers = s.timers
             /\ sent = s.sent
             /\ events = s.events
             /\ calls = s.calls
             /\ issued = s.issued
             /\ thrown = s.thrown
             /\ queryParams = s.queryParams
             /\ uri = s.uri

\* a client which retries once, and a caller who listens to 'ready'
Init == Start({1}, {"ready"}, {FALSE})

\* a client with any retryCount option, and a caller who listens to the events
\* about failed connections
InitLifecycle == Start(RetryCounts, {"connectionError", "terminated"}, {FALSE})

\* the caller calls connect()
Connect == Commit(ClientConnect(State))

\* the caller calls reconnect()
Reconnect == Commit(ClientReconnect(State))

\* the caller calls disconnect()
Disconnect == Commit(ClientDisconnect(State))

\* the caller calls execute(), with or without a callback
ExecuteCommand == \E withCb \in BOOLEAN : Commit(Execute(State, withCb))

\* the delayed connect of connection c fires
TimerFires == \E c \in timers : Commit(DelayedConnect(State, c))

\* the transport of connection c gets connected
TransportConnected ==
    \E c \in ConnIds :
        /\ transports[c].state = "connecting"
        /\ Commit(OnConnected([State EXCEPT !.transports[c] = TransportOpened(@)], c))

\* an attempt of the transport of connection c fails
TransportConnectionError ==
    \E c \in ConnIds, retryable \in BOOLEAN :
        /\ transports[c].state = "connecting"
        /\ transports[c].attempts < MaxAttempts \/ retryCount # Always
        /\ LET attempts == transports[c].attempts
               retry == TransportRetry(retryable, attempts, retryCount)
           IN  Commit(OnConnectionError(
                        [State EXCEPT !.transports[c] = TransportFailed(@, retry)],
                        c, retry, attempts, ErrorOf(retryable)))

\* the transport of connection c starts its next attempt, after the retry delay
TransportRetries ==
    \E c \in ConnIds :
        /\ transports[c].state = "waiting"
        /\ Commit([State EXCEPT !.transports[c] = TransportRetried(@)])

\* the open transport of connection c is closed by the peer, or closes after a
\* keepalive timeout
TransportDisconnected ==
    \E c \in ConnIds, data \in CloseData :
        /\ transports[c].state = "connected"
        /\ Commit(OnDisconnected([State EXCEPT !.transports[c] = TransportClosed],
                                 c, data))

\* what the listener of 'ready' may do when a handshake arrives: it is called
\* when 'ready' is emitted and has a listener, and makes no more calls than the
\* model has commands left
ListenersFor(isNew) ==
    IF "ready" \in listeners /\ (~ready \/ isNew)
    THEN ListenersUpTo(MaxCommands - issued)
    ELSE {Silent}

\* the open transport of connection c delivers a handshake frame; the listener
\* of 'ready', if it is called, does any of the things a listener may do
ReceiveHello ==
    \E c \in ConnIds, sid \in Sids, isNew \in BOOLEAN :
      \E listen \in ListenersFor(isNew) :
        /\ transports[c].state = "connected"
        /\ Commit(ProcessMessage(State, HelloMessage(sid, isNew), listen, FALSE))

\* what the callback of command id i may do when it is called: return (FALSE)
\* or throw (TRUE); an id without callback has nothing to throw
Throws(i) == IF i \in callbacks THEN BOOLEAN ELSE {FALSE}

\* the open transport of connection c delivers a result or an error frame; the
\* callback of the command, if any, returns or throws
ReceiveReply ==
    \E c \in ConnIds, i \in ReplyIds :
      \E m \in {ResultMessage(i), ErrorMessage(i)}, throws \in Throws(i) :
        /\ transports[c].state = "connected"
        /\ Commit(ProcessMessage(State, m, Silent, throws))

\* the open transport of connection c delivers a notification frame, a frame
\* of no known shape, or a frame which is not JSON
ReceiveOther ==
    \E c \in ConnIds,
       m \in {NotificationMessage("ticker", Payload), UnsupportedMessage, InvalidMessage} :
        /\ transports[c].state = "connected"
        /\ Commit(ProcessMessage(State, m, Silent, FALSE))

Next ==
    \/ Connect
    \/ Reconnect
    \/ Disconnect
    \/ ExecuteCommand
    \/ TimerFires
    \/ TransportConnected
    \/ TransportConnectionError
    \/ TransportRetries
    \/ TransportDisconnected
    \/ ReceiveHello
    \/ ReceiveReply
    \/ ReceiveOther

Spec == Init /\ [][Next]_vars

\* the client while the server sends no frame
NextLifecycle ==
    \/ Connect
    \/ Reconnect
    \/ Disconnect
    \/ ExecuteCommand
    \/ TimerFires
    \/ TransportConnected
    \/ TransportConnectionError
    \/ TransportRetries
    \/ TransportDisconnected

SpecLifecycle == InitLifecycle /\ [][NextLifecycle]_vars

\* a client which retries once or always, and a caller who listens to all the
\* events about the connection
InitRecovery == Start({Always, 1}, ConnectionEvents, {FALSE})

\* the client while the caller sends no command and the server sends no frame
NextRecovery ==
    \/ Connect
    \/ Reconnect
    \/ Disconnect
    \/ TimerFires
    \/ TransportConnected
    \/ TransportConnectionError
    \/ TransportRetries
    \/ TransportDisconnected

\* timers fire (the delayed connect of the client, the retry of the transport),
\* and the transport eventually accepts a connection
SpecRecovery ==
    /\ InitRecovery
    /\ [][NextRecovery]_vars
    /\ WF_vars(TimerFires)
    /\ WF_vars(TransportRetries)
    /\ SF_vars(TransportConnected)

\* a client built with or without the globalListener option, and a caller who
\* listens to 'notification' and to the event of every kind
InitRouter == Start({1}, {"notification"} \cup Kinds, BOOLEAN)

\* the open transport of connection c delivers a notification frame
ReceiveNotification ==
    \E c \in ConnIds, kind \in Kinds, d \in Payloads :
        /\ transports[c].state = "connected"
        /\ Len(events) < MaxEvents
        /\ Commit(ProcessMessage(State, NotificationMessage(kind, d), Silent, FALSE))

\* the client while the caller sends no command and the server sends
\* handshakes and notifications
NextRouter ==
    \/ Connect
    \/ Reconnect
    \/ Disconnect
    \/ TimerFires
    \/ TransportConnected
    \/ TransportDisconnected
    \/ ReceiveHello
    \/ ReceiveNotification

SpecRouter == InitRouter /\ [][NextRouter]_vars

\* values of options.retryCount, valid or not
CountValues ==
    {Undefined, AlwaysText, Text}
    \cup {Number(t) : t \in {-10, -5, 0, 10, 15, 20}}

\* values of options.retryDelay and options.pingTimeout, valid or not
DelayValues ==
    {Undefined, Text}
    \cup {Number(t) : t \in {-10, 0, 9990, 9995, 10000, 10005, 20000}}

\* no client yet: the constructor is about to be called with some options
InitConfig ==
    /\ options \in {Options(count, delay, ping) :
                        count \in CountValues, delay \in DelayValues,
                        ping \in {Undefined, Number(9990), Number(10000)}}
    /\ built = "no"
    /\ retryCount = Always
    /\ retryDelay = RETRY_DELAY
    /\ listeners = {}
    /\ globalListener = FALSE
    /\ LET s == Constructed(FALSE, {}, FALSE)
       IN  /\ connection = s.connection
           /\ connectionCounter = s.connectionCounter
           /\ sessionId = s.sessionId
           /\ ready = s.ready
           /\ nextCommandId = s.nextCommandId
           /\ callbacks = s.callbacks
           /\ queue = s.queue
           /\ transports = s.transports
           /\ timers = s.timers
           /\ sent = s.sent
           /\ events = s.events
           /\ calls = s.calls
           /\ issued = s.issued
           /\ thrown = s.thrown
           /\ queryParams = s.queryParams
           /\ uri = s.uri

\* new Client(uri, options), with or without autoConnect and globalListener:
\* the constructor throws before it sets the fields which follow the options
Construct ==
    /\ built = "no"
    /\ \E autoConnect \in BOOLEAN, global \in BOOLEAN :
         IF OptionsThrow(options)
         THEN /\ built' = "threw"
              /\ UNCHANGED <<retryCount, connection, connectionCounter, sessionId,
                             ready, nextCommandId, callbacks, queue, transports,
                             timers, sent, events, calls, issued, thrown,
                             listeners, globalListener, retryDelay, options,
                             queryParams, uri>>
         ELSE /\ built' = "yes"
              /\ retryCount' = RetryCountOf(options)
              /\ retryDelay' = RetryDelayOf(options)
              /\ globalListener' = global
              /\ Assign(Constructed(autoConnect, listeners, global))
              /\ UNCHANGED <<listeners, options>>

\* the first attempt of the connection made by the constructor succeeds
FirstConnected == built = "yes" /\ TransportConnected

NextConfig ==
    \/ Construct
    \/ FirstConnected

SpecConfig == InitConfig /\ [][NextConfig]_vars

\* a client built for a uri with or without query parameters, with or without
\* a session id in the uri (1) or in the options (2), which retries once; the
\* caller listens to nothing
InitAddress ==
    /\ options = Options(CountOption(1), Undefined, Undefined)
    /\ built = "yes"
    /\ retryCount = RetryCountOf(options)
    /\ retryDelay = RetryDelayOf(options)
    /\ listeners = {}
    /\ globalListener = FALSE
    /\ \E query \in SUBSET QueryNames, uriSid \in {0, 1}, optionSid \in {0, 2},
          autoConnect \in BOOLEAN :
         LET s == ConstructedWith(query, uriSid, optionSid, autoConnect, {}, FALSE)
         IN  /\ connection = s.connection
             /\ connectionCounter = s.connectionCounter
             /\ sessionId = s.sessionId
             /\ ready = s.ready
             /\ nextCommandId = s.nextCommandId
             /\ callbacks = s.callbacks
             /\ queue = s.queue
             /\ transports = s.transports
             /\ timers = s.timers
             /\ sent = s.sent
             /\ events = s.events
             /\ calls = s.calls
             /\ issued = s.issued
             /\ thrown = s.thrown
             /\ queryParams = s.queryParams
             /\ uri = s.uri

\* the open transport of connection c delivers a handshake frame, for any of
\* the session ids
ReceiveHandshake ==
    \E c \in ConnIds, sid \in SessionIds, isNew \in BOOLEAN :
        /\ transports[c].state = "connected"
        /\ Commit(ProcessMessage(State, HelloMessage(sid, isNew), Silent, FALSE))

\* the client while the caller sends no command and the server sends
\* handshakes only
NextAddress ==
    \/ Connect
    \/ Reconnect
    \/ Disconnect
    \/ TimerFires
    \/ TransportConnected
    \/ TransportDisconnected
    \/ ReceiveHandshake

SpecAddress == InitAddress /\ [][NextAddress]_vars

\* a client which retries once, and a caller who listens to 'disconnected'
InitStale == Start({1}, {"disconnected"}, {FALSE})

\* connection c is not the connection of the client any more: the client has
\* disconnected it, by reconnect() or by disconnect(), and it has not
\* delivered 'disconnected'
Stale(c) ==
    /\ c # connection
    /\ transports[c].state = "disconnected"
    /\ \A k \in 1..Len(events) : events[k].connectionId # c

\* the frames which a connection may deliver late: a handshake, and the result
\* of the first command
LateMessages == {HelloMessage(1, FALSE), ResultMessage(1)}

\* a connection which the client has disconnected delivers 'disconnected' all
\* the same: its handler, which is still attached, runs
StaleDisconnected ==
    \E c \in ConnIds, data \in {PeerClose} :
        /\ Stale(c)
        /\ Commit(OnDisconnected(State, c, data))

\* a connection which the client has disconnected delivers a frame all the
\* same: its handler, which is still attached, runs
StaleMessage ==
    \E c \in ConnIds, m \in LateMessages :
        /\ Stale(c)
        /\ Commit(ProcessMessage(State, m, Silent, FALSE))

\* the open transport of connection c delivers the handshake frame of a
\* session which is not new
ReceiveResumed ==
    \E c \in ConnIds :
        /\ transports[c].state = "connected"
        /\ Commit(ProcessMessage(State, HelloMessage(1, FALSE), Silent, FALSE))

\* the client when a transport which it has disconnected may still deliver
\* events, while no attempt fails
NextStale ==
    \/ Connect
    \/ Reconnect
    \/ Disconnect
    \/ ExecuteCommand
    \/ TimerFires
    \/ TransportConnected
    \/ ReceiveResumed
    \/ StaleDisconnected
    \/ StaleMessage

SpecStale == InitStale /\ [][NextStale]_vars

\* a client which retries once, and a caller who listens to 'disconnected'
InitTimer == Start({1}, {"disconnected"}, {FALSE})

\* the delayed connect of connection c fires after the client has disconnected
\* c: the timer is never cleared, and the transport does not ignore connect()
ClosedTimerFires ==
    \E c \in timers :
        /\ transports[c].state = "disconnected"
        /\ Commit(DelayedConnectAgain(State, c))

\* the client when a transport which has been closed does not ignore
\* connect(), while no attempt fails and the server sends no frame
NextTimer ==
    \/ Connect
    \/ Reconnect
    \/ Disconnect
    \/ ExecuteCommand
    \/ TimerFires
    \/ TransportConnected
    \/ TransportDisconnected
    \/ ClosedTimerFires

SpecTimer == InitTimer /\ [][NextTimer]_vars

----------------------------------------------------------------------------
TypeOK ==
    /\ retryCount \in RetryCounts
    /\ connection \in 0..MaxConn
    /\ connectionCounter \in 0..MaxConn
    /\ sessionId \in {0} \cup SessionIds
    /\ ready \in BOOLEAN
    /\ nextCommandId \in 1..(MaxCommands + 1)
    /\ callbacks \subseteq CommandIds
    /\ timers \subseteq ConnIds
    /\ issued \in 0..MaxCommands
    /\ thrown \in BOOLEAN
    /\ globalListener \in BOOLEAN
    /\ retryDelay >= MinRetryDelay
    /\ built \in {"no", "yes", "threw"}
    /\ queryParams \subseteq QueryNames
    /\ uri.sid \in {0} \cup SessionIds
    /\ uri.params \subseteq queryParams
    /\ \A c \in ConnIds : transports[c].state \in TransportStates

----------------------------------------------------------------------------
(* Vocabulary of the properties *)

\* the client has emitted 'terminated' for connection c
Terminated(c) ==
    \E k \in 1..Len(events) :
        events[k].type = "terminated" /\ events[k].connectionId = c

\* the terminated state: the connection of the client has emitted 'terminated'
TerminatedState == connection # 0 /\ Terminated(connection)

\* the step creates a connection or starts a connection attempt
AttemptStarts ==
    \/ connectionCounter' # connectionCounter
    \/ \E c \in ConnIds :
        transports'[c].state = "connecting" /\ transports[c].state # "connecting"

\* the 'connectionError' and 'terminated' events of connection c, in order
Failures(c) ==
    SelectSeq(events, LAMBDA e : e.connectionId = c
                                 /\ e.type \in {"connectionError", "terminated"})

\* the frames passed to execute() which are in the queue or were sent
AllFrames == queue \o [k \in 1..Len(sent) |-> sent[k].frame]

\* a transport is open, and may deliver a frame
Open == \E c \in ConnIds : transports[c].state = "connected"

\* the client state after the delivery of the frame m in the current state
Delivered(m, listen, throws) == ProcessMessage(State, m, listen, throws)

\* the frames which the client state r has handed to a transport out of its
\* queue since the current state, in the order in which it has handed them
Flushed(r) ==
    LET handed == SubSeq(r.sent, Len(sent) + 1, Len(r.sent))
        fromQueue == SelectSeq(handed, LAMBDA x : x.queued)
    IN  [k \in 1..Len(fromQueue) |-> fromQueue[k].frame]

\* the listeners of 'ready' which the properties look at: the listener which
\* does nothing, the listener which makes one call with a callback, the
\* listener of the README, and the listeners which throw, at once or after the
\* calls of the README
Watched ==
    {Silent, Listener(<<TRUE>>, FALSE), ReadmeListener,
     Listener(<<>>, TRUE), Listener(ReadmeListener.does, TRUE)}

\* what the listener of 'ready' may do when a handshake arrives in the current
\* state: it is only called when 'ready' is emitted and has a listener
CalledWith(isNew) ==
    IF "ready" \in listeners /\ (~ready \/ isNew) THEN Watched ELSE {Silent}

\* the handshake makes the client call the listener of 'ready', and the
\* listener throws: the exception ends the handling of the frame
Aborts(listen, isNew) ==
    listen.throws /\ "ready" \in listeners /\ (~ready \/ isNew)

\* a step in which an open transport delivers the frame m
ReplyStep(m) ==
    \E c \in ConnIds, throws \in Throws(m.i) :
        /\ transports[c].state = "connected"
        /\ Commit(ProcessMessage(State, m, Silent, throws))

\* a step in which an open transport delivers a handshake frame
HelloStep(sid, isNew, listen) ==
    \E c \in ConnIds :
        /\ transports[c].state = "connected"
        /\ Commit(ProcessMessage(State, HelloMessage(sid, isNew), listen, FALSE))

----------------------------------------------------------------------------
(* C1 *)

C1_Pattern ==
    \A c \in ConnIds :
        LET f == Failures(c)
        IN  (retryCount # Always /\ \A k \in 1..Len(f) : f[k].error = "retryable") =>
                /\ Len(f) <= retryCount + 1
                /\ \A k \in 1..Len(f) :
                     /\ f[k].attempts = k
                     /\ f[k].type = IF k <= retryCount THEN "connectionError"
                                    ELSE "terminated"

\* C1: with a finite retryCount = N, a connection whose attempts all fail with a
\* retryable error gives N 'connectionError' events, with attempts = 1..N in
\* order, then one 'terminated' event with attempts = N + 1 and nothing more;
\* and as long as the terminated connection is the connection of the client, the
\* only step which creates a connection or starts an attempt is reconnect().
C1_RetriesThenTerminated ==
    /\ []C1_Pattern
    /\ [][(TerminatedState /\ AttemptStarts) => Reconnect]_vars

\* the scenario of the specification: retryCount = 2, three failures in a row
C1_Witness ==
    /\ retryCount = 2
    /\ \E c \in ConnIds :
         /\ Len(Failures(c)) = 3
         /\ \A k \in 1..3 : Failures(c)[k].error = "retryable"
         /\ Failures(c)[3].type = "terminated"

----------------------------------------------------------------------------
(* C2 *)

\* C2: in the terminated state connect() changes nothing, execute() only adds
\* its frame to the queue, disconnect() creates no connection, and reconnect()
\* creates the next connection, which starts connecting with its first attempt.
C2_OnlyReconnectRearms ==
    [][TerminatedState =>
        /\ Connect => UNCHANGED <<connection, connectionCounter, transports, queue, sent>>
        /\ ExecuteCommand =>
             /\ UNCHANGED <<connection, connectionCounter, transports, sent>>
             /\ Len(queue') = Len(queue) + 1
        /\ Disconnect => ~AttemptStarts
        /\ Reconnect =>
             /\ connectionCounter' = connectionCounter + 1
             /\ connection' = connectionCounter'
             /\ transports'[connection'] = [state |-> "connecting", attempts |-> 1]
             /\ ~TransportActive(transports'[connection])]_vars

\* after 'terminated' for a connection, a frame is in the queue and the next
\* connection is making its first attempt
C2_Witness ==
    \E k \in 1..Len(events) :
        /\ events[k].type = "terminated"
        /\ connection = events[k].connectionId + 1
        /\ transports[connection] = [state |-> "connecting", attempts |-> 1]
        /\ Len(queue) >= 1

----------------------------------------------------------------------------
(* C3 *)

\* until the session is ready nothing is sent, and the queue holds the frames of
\* all the calls of execute(), in the order of the calls
C3_BeforeReady ==
    ~ready => /\ sent = <<>>
              /\ Len(queue) = issued
              /\ \A k \in 1..Len(queue) : queue[k].n = k

\* the frames of the queue, handed to an open transport as frames which come
\* from the queue
FromQueue ==
    [k \in 1..Len(queue) |-> [frame |-> queue[k], open |-> TRUE, queued |-> TRUE]]

\* C3: the frames passed to execute() before the session has ever been ready are
\* all in the queue, in the order of the calls, and the handling of the first
\* handshake on the open connection hands all of them to the transport, in that
\* order, and leaves none in the queue, whatever the listener of 'ready' does.
C3_QueuedOrderKept ==
    /\ C3_BeforeReady
    /\ (~ready /\ Open) =>
          \A sid \in Sids, isNew \in BOOLEAN :
           \A listen \in CalledWith(isNew) :
             LET r == Delivered(HelloMessage(sid, isNew), listen, FALSE)
                 old == SelectSeq(r.sent, LAMBDA x : x.frame.n <= issued)
             IN  r.queue = <<>> /\ old = FromQueue

----------------------------------------------------------------------------
(* C4 *)

\* the ids of the commands issued with a callback are 1, 2, ... in the order of
\* the calls, so no two of them are equal
C4_Ids ==
    LET withId == {k \in 1..Len(AllFrames) : AllFrames[k].i # 0}
    IN  /\ nextCommandId = 1 + Cardinality(withId)
        /\ \A k \in withId :
             AllFrames[k].i =
                1 + Cardinality({j \in withId : AllFrames[j].n < AllFrames[k].n})
        /\ \A j, k \in withId : j # k => AllFrames[j].i # AllFrames[k].i
        /\ \A i \in callbacks : \E k \in withId : AllFrames[k].i = i

\* C4: the counter of command ids starts at 1, grows by one with each command
\* issued with a callback and never goes back, whatever happens to the
\* connection; the commands which wait for a reply have distinct ids.
C4_IdsNeverReused ==
    /\ []C4_Ids
    /\ [][/\ nextCommandId' >= nextCommandId
          /\ nextCommandId' - nextCommandId <= issued' - issued]_vars

\* two commands wait for a reply after the connection has been replaced
C4_Witness ==
    /\ callbacks = {1, 2}
    /\ nextCommandId = 3
    /\ connectionCounter >= 2

----------------------------------------------------------------------------
(* C5 *)

C5_Once ==
    \A i \in CommandIds :
        /\ Len(calls[i]) <= 1
        /\ Len(calls[i]) = 1 => i \notin callbacks

\* C5: the callback of a command is invoked at most once; a result frame for a
\* waiting id invokes it as a result, an error frame as an error, and in both
\* cases the id has no callback any more afterwards.
C5_HandlerAtMostOnce ==
    /\ C5_Once
    /\ (Open /\ ready) =>
          \A i \in callbacks, throws \in BOOLEAN :
              LET r == Delivered(ResultMessage(i), Silent, throws)
                  e == Delivered(ErrorMessage(i), Silent, throws)
              IN  /\ r.calls = [calls EXCEPT ![i] = <<"result">>]
                  /\ r.callbacks = callbacks \ {i}
                  /\ e.calls = [calls EXCEPT ![i] = <<"error">>]
                  /\ e.callbacks = callbacks \ {i}

\* one command was answered by a result frame, another one by an error frame
C5_Witness ==
    /\ calls[1] = <<"result">>
    /\ calls[2] = <<"error">>
    /\ callbacks = {}

----------------------------------------------------------------------------
(* C6 *)

\* C6: a result or error frame whose id has no callback (never given, or
\* already answered) changes nothing: no callback is invoked, no event is
\* emitted, and the callbacks, the queue, the session and the connection are
\* as before.
C6_UnknownReplyIgnored ==
    Open =>
        \A i \in ReplyIds \ callbacks, throws \in BOOLEAN :
            /\ Delivered(ResultMessage(i), Silent, throws) = State
            /\ Delivered(ErrorMessage(i), Silent, throws) = State

\* the session is ready on an open connection, id 1 has been answered and id 2
\* waits: a second reply for id 1, or a reply for an id never given, may arrive
C6_Witness ==
    /\ ready
    /\ connection # 0
    /\ transports[connection].state = "connected"
    /\ Len(calls[1]) = 1
    /\ callbacks = {2}

----------------------------------------------------------------------------
(* C7 *)

\* C7: a handshake frame emits 'ready', once and with its session id and isNew
\* flag, when the session has never been ready or the frame says isNew; it emits
\* nothing otherwise.
C7_ReadyIffFirstOrNew ==
    Open =>
        \A sid \in Sids, isNew \in BOOLEAN :
          \A listen \in CalledWith(isNew) :
            Delivered(HelloMessage(sid, isNew), listen, FALSE).events =
                IF ~ready \/ isNew
                THEN Append(events, Event("ready", 0, 0, "", sid, isNew))
                ELSE events

\* 'ready' was emitted for a first handshake which resumes a session, then again
\* for a handshake which says isNew
C7_Witness ==
    /\ Len(events) = 2
    /\ events[1].type = "ready" /\ ~events[1].isNew
    /\ events[2].type = "ready" /\ events[2].isNew

----------------------------------------------------------------------------
(* C8 *)

\* C8: 'ready' is emitted at most once in the lifetime of the client.
C8_ReadyAtMostOnce == Heard(events, "ready") <= 1

----------------------------------------------------------------------------
(* C9 *)

\* C9: at most one of the transports created by the client is connecting,
\* waiting to retry or open, and it is the connection of the client.
C9_OneActiveTransport ==
    /\ Cardinality({c \in ConnIds : TransportActive(transports[c])}) <= 1
    /\ \A c \in ConnIds : TransportActive(transports[c]) => c = connection

\* the third connection is active, and the delayed connect of the second one,
\* which was replaced, has fired
C9_Witness ==
    /\ connection = 3
    /\ TransportActive(transports[3])
    /\ transports[2].state = "disconnected"
    /\ timers = {}

----------------------------------------------------------------------------
(* C10 *)

\* while the client has no connection, no transport is connecting, waiting to
\* retry or open
C10_Idle == connection = 0 => \A c \in ConnIds : ~TransportActive(transports[c])

\* C10: disconnect() closes the connection of the client and leaves the client
\* without connection; from then on no transport is active, and the only steps
\* which create a connection or start an attempt are connect() and execute():
\* a delayed connect which fires does not.
C10_DisconnectStops ==
    /\ []C10_Idle
    /\ [][/\ (connection # 0 /\ Disconnect) =>
               /\ connection' = 0
               /\ transports'[connection].state = "disconnected"
          /\ (connection = 0 /\ AttemptStarts) => (Connect \/ ExecuteCommand)]_vars

\* disconnect() was called while a delayed connect was pending
C10_Witness ==
    /\ connection = 0
    /\ timers # {}
    /\ connectionCounter >= 2

----------------------------------------------------------------------------
(* C11 *)

\* the delayed connect of connection c is pending, and c is the connection of
\* the client
RetryPending(c) == c \in timers /\ c = connection /\ transports[c].state = "new"

\* what the caller may do after disconnect() in the client state d, before the
\* delay has elapsed: nothing, connect(), or execute()
BeforeDelay(d) == {d, ClientConnect(d), Execute(d, FALSE), Execute(d, TRUE)}

\* C11: disconnect() called while the delayed connect of the connection of the
\* client is pending cancels it: the client has no connection, and the
\* connection which was scheduled starts no attempt when the delay has
\* elapsed, also when the caller has called connect() or execute() in between.
C11_PendingRetryCancelled ==
    \A c \in ConnIds :
        (RetryPending(c) /\ connectionCounter < MaxConn) =>
            LET d == ClientDisconnect(State)
            IN  /\ d.connection = 0
                /\ \A f \in BeforeDelay(d) :
                     ~TransportActive(DelayedConnectAgain(f, c).transports[c])

----------------------------------------------------------------------------
(* C12 *)

\* the client state after the open transport of connection c has closed with data
Closed(c, data) ==
    OnDisconnected([State EXCEPT !.transports[c] = TransportClosed], c, data)

\* a step in which the open transport of connection c closes with data
CloseStep(c, data) ==
    transports[c].state = "connected" /\ Commit(Closed(c, data))

\* a step in which the delayed connect of connection c fires
TimerStep(c) == c \in timers /\ Commit(DelayedConnect(State, c))

\* C12: when the open transport of connection c closes, the client emits one
\* 'disconnected' event with the id of c and the code and reason of the close,
\* and creates one connection, the next one, whose connect is delayed; when the
\* delay has elapsed this connection starts its first attempt if it is still the
\* connection of the client, and nothing connects if the client has none.
C12_DisconnectedThenRetry ==
    [][/\ \A c \in ConnIds, data \in CloseData :
            CloseStep(c, data) =>
                /\ events' = Append(events, DisconnectedEvent(c, data))
                /\ connectionCounter' = connectionCounter + 1
                /\ connection' = connectionCounter'
                /\ timers' = timers \cup {connection'}
                /\ transports' = [transports EXCEPT ![c] = TransportClosed,
                                                    ![connection'] = TransportNew]
       /\ \A c \in ConnIds :
            TimerStep(c) =>
                /\ timers' = timers \ {c}
                /\ IF c = connection
                   THEN transports' =
                          [transports EXCEPT ![c] = [state |-> "connecting", attempts |-> 1]]
                   ELSE transports' = transports]_vars

\* after the close of the first connection by the peer, the second one has
\* waited for the delay and makes its first attempt
C12_Witness ==
    /\ Len(events) = 2
    /\ events[2] = DisconnectedEvent(1, PeerClose)
    /\ connection = 2
    /\ timers = {}
    /\ transports[2] = [state |-> "connecting", attempts |-> 1]

----------------------------------------------------------------------------
(* C14 *)

\* the client has a connection which is not open and has not been terminated
Recovering ==
    /\ connection # 0
    /\ ~TransportIsConnected(transports[connection])
    /\ ~Terminated(connection)

\* the last event of the client is 'connected', for its connection
ConnectedAgain ==
    /\ connection # 0
    /\ events # <<>>
    /\ events[Len(events)].type = "connected"
    /\ events[Len(events)].connectionId = connection

\* C14: whenever the connection of the client is not open (after a close, a
\* keepalive timeout or a connection error), the client emits 'connected'
\* again later, unless the caller calls disconnect() or 'terminated' is emitted.
C14_SelfHealing ==
    Recovering ~> (ConnectedAgain \/ connection = 0 \/ TerminatedState)

\* the third connection got connected after a close by the peer and a
\* connection error
C14_Witness ==
    /\ ConnectedAgain
    /\ connection = 3
    /\ \E k \in 1..Len(events) : events[k].type = "disconnected"
    /\ \E k \in 1..Len(events) : events[k].type = "connectionError"

----------------------------------------------------------------------------
(* C15 *)

\* C15: a client whose retryCount is 'always' never emits 'terminated'.
C15_AlwaysNeverTerminated ==
    retryCount = Always =>
        \A k \in 1..Len(events) : events[k].type # "terminated"

----------------------------------------------------------------------------
(* C16 *)

\* the frame of the next call of execute()
NextFrame(withCb) == Frame(issued + 1, IF withCb THEN nextCommandId ELSE 0)

\* the client has no connection, or its connection is not open, or the session
\* has never been ready
MustQueue ==
    \/ connection = 0
    \/ ~TransportIsConnected(transports[connection])
    \/ ~ready

\* C16: execute() adds its frame to the queue and sends nothing when the client
\* has no connection, or its connection is not open, or the session has never
\* been ready; otherwise it sends its frame at once on the open connection and
\* leaves the queue as it is.
C16_SendPolicy ==
    (connection # 0 \/ connectionCounter < MaxConn) =>
        \A withCb \in BOOLEAN :
            LET r == Execute(State, withCb)
            IN  IF MustQueue
                THEN /\ r.queue = Append(queue, NextFrame(withCb))
                     /\ r.sent = sent
                ELSE /\ r.queue = queue
                     /\ r.sent = Append(sent, [frame |-> NextFrame(withCb),
                                               open |-> TRUE, queued |-> FALSE])

\* a frame was sent at once, and the frame of a later call is in the queue
C16_Witness ==
    /\ Len(sent) = 1 /\ ~sent[1].queued /\ sent[1].frame.n = 1
    /\ Len(queue) = 1 /\ queue[1].n = 2

----------------------------------------------------------------------------
(* C17 *)

\* in the client state r the next connection has been created, and has started
\* its first attempt at once
ConnectsNow(r) ==
    /\ r.connectionCounter = connectionCounter + 1
    /\ r.connection = r.connectionCounter
    /\ r.timers = timers
    /\ r.transports =
         [transports EXCEPT ![r.connection] = [state |-> "connecting", attempts |-> 1]]

\* C17: while the client has no connection, connect() and execute() each create
\* one connection, the next one, which starts connecting at once; execute() also
\* adds its frame to the queue, and nothing is sent.
C17_LazyConnect ==
    (connection = 0 /\ connectionCounter < MaxConn) =>
        /\ LET r == ClientConnect(State)
           IN  ConnectsNow(r) /\ r.queue = queue /\ r.sent = sent
        /\ \A withCb \in BOOLEAN :
             LET r == Execute(State, withCb)
             IN  /\ ConnectsNow(r)
                 /\ r.queue = Append(queue, NextFrame(withCb))
                 /\ r.sent = sent

\* the session was ready on the first connection, which is closed; a frame is in
\* the queue and the second connection connects without delay
C17_Witness ==
    /\ ready
    /\ connectionCounter = 2
    /\ connection = 2
    /\ transports[2] = [state |-> "connecting", attempts |-> 1]
    /\ timers = {}
    /\ sent = <<>>
    /\ Len(queue) = 1

----------------------------------------------------------------------------
(* C18 *)

\* C18: in the step which handles a handshake frame, the frames which were in
\* the queue when the frame arrived are handed to the transport before any frame
\* which a listener of 'ready' produces during the step, and every frame passed
\* to execute() is either in the queue or handed to the transport.
C18_QueuedBeforeListenerFrames ==
    [][\A sid \in Sids, isNew \in BOOLEAN, listen \in Listeners :
          HelloStep(sid, isNew, listen) =>
              LET handed == (Len(sent) + 1)..Len(sent')
                  old == {k \in handed : sent'[k].frame.n <= issued}
                  new == {k \in handed : sent'[k].frame.n > issued}
              IN  /\ \A j \in old, k \in new : j < k
                  /\ Len(queue') + Len(sent') = issued']_vars

----------------------------------------------------------------------------
(* C19 *)

\* C19: until the session has been ready, a frame which is not a handshake
\* changes nothing: no event, no callback invoked, and the callbacks, the queue
\* and the session are as before, so a command whose result frame is dropped
\* still waits.
C19_DroppedBeforeReady ==
    [][~ready =>
          \A m \in Messages : (~m.hello /\ ReplyStep(m)) => UNCHANGED vars]_vars

\* before the first handshake, the connection is open and a command waits for
\* its reply, with its frame in the queue
C19_Witness ==
    /\ ~ready
    /\ connection # 0
    /\ TransportIsConnected(transports[connection])
    /\ 1 \in callbacks
    /\ Len(queue) >= 1

----------------------------------------------------------------------------
(* C20 *)

\* a step in which an open transport delivers the frame m, and the callback of
\* the command throws
ThrowStep(m) ==
    \E c \in ConnIds :
        /\ transports[c].state = "connected"
        /\ Commit(ProcessMessage(State, m, Silent, TRUE))

\* C20: when the callback of a command throws while its result or error frame
\* is delivered, the exception comes out of _processMessage.
C20_HandlerExceptionPropagates ==
    [][\A i \in callbacks :
          \A m \in {ResultMessage(i), ErrorMessage(i)} :
              (ready /\ ThrowStep(m)) => thrown']_vars

----------------------------------------------------------------------------
(* C21 *)

\* the names of the events of the client
EventNames == ConnectionEvents \cup {"ready", "notification"} \cup Kinds

\* the current state of a client of which every event has a listener
Listened == [State EXCEPT !.listeners = EventNames]

\* C21: a frame which is not JSON, or which is JSON but has none of the fields
\* hello, n, r and e, changes nothing, whatever the caller listens to: no
\* event is emitted, no exception comes out, no callback is invoked, and the
\* session, the callbacks, the queue and the connection are as before.
C21_MalformedDropped ==
    Open =>
        \A m \in {InvalidMessage, UnsupportedMessage}, listen \in Watched :
            ProcessMessage(Listened, m, listen, FALSE) = Listened

\* the session is ready on an open connection, a command waits for its reply
\* and no event has been emitted since 'ready': a malformed frame may arrive
C21_Witness ==
    /\ ready
    /\ connection # 0
    /\ transports[connection].state = "connected"
    /\ callbacks # {}
    /\ Len(sent) >= 1
    /\ thrown = FALSE

----------------------------------------------------------------------------
(* C22 *)

\* the payload d with the kind set as its 'notification' property
WithKind(kind, d) == [notification |-> kind, object |-> d.object, pair |-> d.pair]

\* the events of the client after the delivery of the notification frame
\* {n: kind, d: d} in the current state
Notified(kind, d) == Delivered(NotificationMessage(kind, d), Silent, FALSE).events

\* C22: the globalListener option never changes after the constructor; once
\* the session is ready, every notification frame emits exactly one event:
\* with globalListener it is 'notification', with the payload to which the
\* kind is added, and no event named by the kind; without it, it is the event
\* named by the kind, with the payload alone, and no 'notification'.
C22_ExclusiveModes ==
    /\ [][globalListener' = globalListener]_vars
    /\ [](ready /\ Open =>
            \A kind \in Kinds, d \in Payloads :
                Notified(kind, d) =
                    Append(events,
                        IF globalListener
                        THEN NotificationEvent("notification", WithKind(kind, d))
                        ELSE NotificationEvent(kind, d)))

----------------------------------------------------------------------------
(* C23 *)

\* the frame of command id i has been handed to a transport, the command
\* waits for its reply, and that transport has been replaced: no transport is
\* open, and the next connection is connecting
Replaced(i) ==
    /\ i \in callbacks
    /\ \E k \in 1..Len(sent) : sent[k].frame.i = i
    /\ ~Open
    /\ connection # 0
    /\ transports[connection].state = "connecting"

\* the client state once the connection which is connecting has got open
Reopened ==
    OnConnected([State EXCEPT !.transports[connection] = TransportOpened(@)],
                connection)

\* C23: the callback of a command whose connection has been replaced while it
\* was waiting for its reply is not invoked afterwards: a result or error
\* frame with its id, delivered by the next connection, invokes nothing.
C23_NeverInvokedAfterReplacement ==
    \A i \in CommandIds :
        Replaced(i) =>
            /\ ProcessMessage(Reopened, ResultMessage(i), Silent, FALSE).calls[i] = <<>>
            /\ ProcessMessage(Reopened, ErrorMessage(i), Silent, FALSE).calls[i] = <<>>

----------------------------------------------------------------------------
(* C24 *)

\* the step in which the event e is emitted is a step of the transport of the
\* connection whose id the event carries
ProducedBy(e) ==
    LET before == transports[e.connectionId].state
        after == transports'[e.connectionId].state
    IN  CASE e.type = "connected" -> before = "connecting" /\ after = "connected"
          [] e.type = "disconnected" -> before = "connected" /\ after = "disconnected"
          [] e.type = "connectionError" -> before = "connecting" /\ after = "waiting"
          [] e.type = "terminated" -> before = "connecting" /\ after = "failed"

\* the step gives the id c to a new transport: the transport of c becomes a
\* new one, or one making its first attempt which was not a new one before
Created(c) ==
    /\ transports'[c] # transports[c]
    /\ \/ transports'[c].state = "new"
       \/ /\ transports'[c] = TransportConnect(TransportNew)
          /\ transports[c].state # "new"

\* C24: the id of a new connection is the number of connections created before
\* plus one, so it is greater than the id of every connection created before,
\* and no id is given twice; every 'connected', 'disconnected',
\* 'connectionError' and 'terminated' event carries the id of the connection
\* whose transport produced it.
C24_ConnectionIds ==
    [][/\ connectionCounter' >= connectionCounter
       /\ \A c \in ConnIds :
            /\ transports[c].state # "none" <=> c <= connectionCounter
            /\ Created(c) =>
                 /\ transports[c].state = "none"
                 /\ c = connectionCounter + 1
                 /\ connectionCounter' = c
       /\ events' # events =>
            /\ Len(events') = Len(events) + 1
            /\ SubSeq(events', 1, Len(events)) = events
            /\ ProducedBy(events'[Len(events')])]_vars

\* three connections have been created, and each of the four events has been
\* emitted: 'connected' and 'disconnected' for the first connection,
\* 'connectionError' for the second one, 'terminated' for the third one
C24_Witness ==
    /\ connectionCounter = 3
    /\ \E k \in 1..Len(events) :
         events[k].type = "connected" /\ events[k].connectionId = 1
    /\ \E k \in 1..Len(events) :
         events[k].type = "disconnected" /\ events[k].connectionId = 1
    /\ \E k \in 1..Len(events) :
         events[k].type = "connectionError" /\ events[k].connectionId = 2
    /\ \E k \in 1..Len(events) :
         events[k].type = "terminated" /\ events[k].connectionId = 3

----------------------------------------------------------------------------
(* C25 *)

\* the option value is the string 'always' or an integer >= 0
CountIsValid(v) ==
    \/ v.kind = "always"
    \/ v.kind = "number" /\ v.tenths >= 0 /\ v.tenths % 10 = 0

\* the option value is a number below the minimum
Below(v, min) == v.kind = "number" /\ v.tenths < 10 * min

\* C25: when options.retryCount is given and is neither 'always' nor an
\* integer >= 0, or options.retryDelay is below 1000, or options.pingTimeout is
\* below 1000, the constructor throws, and no connection has been created,
\* with or without autoConnect; when the constructor returns and
\* options.retryDelay was not given, the retry delay is 10000.
C25_InvalidOptionsRejected ==
    built # "no" =>
        /\ (\/ options.retryCount.kind # "undefined" /\ ~CountIsValid(options.retryCount)
            \/ Below(options.retryDelay, MinRetryDelay)
            \/ Below(options.pingTimeout, MinPingTimeout)) =>
               /\ built = "threw"
               /\ connectionCounter = 0
               /\ \A c \in ConnIds : transports[c] = TransportNone
        /\ (built = "yes" /\ options.retryDelay = Undefined) =>
               retryDelay = RETRY_DELAY

----------------------------------------------------------------------------
(* C26 *)

\* C26: between two handlers, whenever isReady() is true the queue is empty.
C26_ReadyImpliesEmptyQueue == ready => queue = <<>>

----------------------------------------------------------------------------
(* C27 *)

\* a step in which an open transport delivers the handshake frame of session
\* sid
HandshakeStep(sid, isNew) ==
    \E c \in ConnIds :
        /\ transports[c].state = "connected"
        /\ Commit(ProcessMessage(State, HelloMessage(sid, isNew), Silent, FALSE))

\* C27: a handshake stores its session id and nothing else changes the stored
\* id, and once a handshake has been received every new connection is given
\* the uri with that session id and with the query parameters of the caller
\* but 'expires' and 'timeout'; a uri with 'expires' or 'timeout' is only given
\* while the session has never been ready.
C27_AddressAfterHandshake ==
    [][/\ \A sid \in SessionIds, isNew \in BOOLEAN :
            HandshakeStep(sid, isNew) => sessionId' = sid /\ ready'
       /\ sessionId' # sessionId =>
            \E sid \in SessionIds, isNew \in BOOLEAN : HandshakeStep(sid, isNew)
       /\ connectionCounter' # connectionCounter =>
            /\ ready => uri' = Uri(sessionId, queryParams \ FirstOnly)
            /\ uri'.params \cap FirstOnly # {} => ~ready]_vars

\* the caller gave session 1 and the three query parameters; the handshake
\* gave session 2, and the second connection has been created with session 2
\* and without 'expires' and 'timeout'
C27_Witness ==
    /\ queryParams = QueryNames
    /\ ready
    /\ sessionId = 2
    /\ connectionCounter = 2
    /\ uri = Uri(2, {"apiKey"})

----------------------------------------------------------------------------
(* C28 *)

\* C28: the uri given to the first connection has every query parameter of
\* the uri of the caller, whether or not a session id is known.
C28_FirstAddressKeepsQuery ==
    connectionCounter = 1 => uri.params = queryParams

----------------------------------------------------------------------------
(* C29 *)

\* the frame which the client state r has and the current state has not: the
\* last of its queue, or the last frame handed to a transport
Added(r) ==
    IF Len(r.queue) > Len(queue)
    THEN r.queue[Len(r.queue)]
    ELSE r.sent[Len(r.sent)].frame

\* C29: every frame with an id, in the queue or handed to a transport, has its
\* callback registered until its reply has invoked it, so no reply can find the
\* callback of its command missing; execute() with a callback registers it
\* under the id of its frame, and execute() without a callback makes a frame
\* without id, registers nothing and leaves the next id as it is.
C29_RegisteredBeforeSent ==
    /\ \A k \in 1..Len(AllFrames) :
         AllFrames[k].i # 0 =>
            AllFrames[k].i \in callbacks \/ Len(calls[AllFrames[k].i]) = 1
    /\ (connection # 0 \/ connectionCounter < MaxConn) =>
         /\ LET r == Execute(State, TRUE)
            IN  /\ Added(r) = Frame(issued + 1, nextCommandId)
                /\ r.callbacks = callbacks \cup {nextCommandId}
                /\ r.nextCommandId = nextCommandId + 1
         /\ LET r == Execute(State, FALSE)
            IN  /\ Added(r) = Frame(issued + 1, 0)
                /\ r.callbacks = callbacks
                /\ r.nextCommandId = nextCommandId

\* a command with a callback was queued and then sent and still waits, and a
\* command without callback was sent after it: the next id is still 2
C29_Witness ==
    /\ callbacks = {1}
    /\ nextCommandId = 2
    /\ Len(sent) = 2
    /\ sent[1].frame = Frame(1, 1) /\ sent[1].queued
    /\ sent[2].frame = Frame(2, 0)

----------------------------------------------------------------------------
(* C30 *)

\* C30: every frame which came out of the queue was handed to a transport
\* which was open, once the session was ready; and a handshake delivered by a
\* connection which is not the connection of the client hands no frame of the
\* queue to any connection.
C30_FlushOnOpenConnection ==
    /\ \A k \in 1..Len(sent) : sent[k].queued => sent[k].open /\ ready
    /\ \A c \in ConnIds :
         (c # connection /\ (Stale(c) \/ TransportIsConnected(transports[c]))) =>
            \A m \in {HelloMessage(1, FALSE), HelloMessage(1, TRUE)} :
                Flushed(Delivered(m, Silent, FALSE)) = <<>>

----------------------------------------------------------------------------
(* C31 *)

\* the places of the frame of call number n: in the queue, and among the
\* frames handed to a transport
InQueue(n) == {k \in 1..Len(queue) : queue[k].n = n}
InSent(n) == {k \in 1..Len(sent) : sent[k].frame.n = n}

\* C31: the frame of every call of execute() is in one place and one only,
\* either once in the queue or once among the frames handed to a transport,
\* and there is no other frame; the flush of the handling of a handshake hands
\* all the frames of the queue to the transport, in the order of the queue,
\* and leaves the queue empty, whatever calls of execute() the listener of
\* 'ready' makes; when that listener throws there is no flush, and the queue
\* is as it was.
C31_NoFrameLostOrDuplicated ==
    /\ Len(queue) + Len(sent) = issued
    /\ \A n \in 1..issued : Cardinality(InQueue(n)) + Cardinality(InSent(n)) = 1
    /\ Open =>
         \A sid \in Sids, isNew \in BOOLEAN :
          \A listen \in CalledWith(isNew) :
            LET r == Delivered(HelloMessage(sid, isNew), listen, FALSE)
            IN  IF Aborts(listen, isNew)
                THEN r.queue = queue /\ Flushed(r) = <<>>
                ELSE r.queue = <<>> /\ Flushed(r) = queue

\* the frame of the first call was queued, then handed to the transport by a
\* flush, and the frame of the second call is in the queue
C31_Witness ==
    /\ issued = 2
    /\ Len(sent) = 1 /\ sent[1].queued /\ sent[1].frame.n = 1
    /\ Len(queue) = 1 /\ queue[1].n = 2

----------------------------------------------------------------------------
(* C32 *)

\* C32: the frames are handed to the transports in the order of the calls of
\* execute(), and no frame is handed to a transport while the frame of an
\* earlier call is in the queue.
C32_ExecuteOrderKept ==
    /\ \A j, k \in 1..Len(sent) : j < k => sent[j].frame.n < sent[k].frame.n
    /\ \A j \in 1..Len(sent), k \in 1..Len(queue) : sent[j].frame.n < queue[k].n

----------------------------------------------------------------------------
(* C33 *)

\* the session has been ready, frames are in the queue, and the connection of
\* the client, which is not the first one, is open: it may deliver its
\* handshake
AwaitsHandshake ==
    /\ ready
    /\ queue # <<>>
    /\ connection > 1
    /\ TransportIsConnected(transports[connection])

\* C33: when the connection which has replaced the connection of a session
\* which has been ready delivers its handshake, the frames which are in the
\* queue are all handed to that connection, which is open, and the queue is
\* empty afterwards; a handshake with isNew = false does so without any
\* 'ready' event: every handshake flushes the queue, whatever the listener of
\* 'ready' does.
C33_FlushedByEveryHandshake ==
    AwaitsHandshake =>
        \A sid \in Sids, isNew \in BOOLEAN :
          \A listen \in CalledWith(isNew) :
            LET r == Delivered(HelloMessage(sid, isNew), listen, FALSE)
            IN  /\ Heard(r.events, "ready") =
                     Heard(events, "ready") + (IF isNew THEN 1 ELSE 0)
                /\ r.queue = <<>>
                /\ Flushed(r) = queue
                /\ \A j \in (Len(sent) + 1)..Len(r.sent) : r.sent[j].open

----------------------------------------------------------------------------
(* C34 *)

\* a step in which connection c, which the client has disconnected, delivers
\* 'disconnected'
StaleDisconnectedStep(c) ==
    \E data \in CloseData : Stale(c) /\ Commit(OnDisconnected(State, c, data))

\* a step in which a connection which the client has disconnected delivers the
\* frame m, while no connection is open
StaleMessageStep(m) ==
    /\ ~Open
    /\ \E c \in ConnIds : Stale(c)
    /\ Commit(ProcessMessage(State, m, Silent, FALSE))

\* C34: an event delivered by a connection which the client has disconnected
\* changes nothing in the client: a late 'disconnected' creates no connection
\* and leaves the connection of the client as it is, and a late frame neither
\* flushes the queue nor invokes or removes the callback of a command.
C34_StaleEventsIgnored ==
    [][/\ \A c \in ConnIds :
            StaleDisconnectedStep(c) =>
                UNCHANGED <<connection, connectionCounter, transports, timers>>
       /\ \A m \in LateMessages :
            StaleMessageStep(m) => UNCHANGED <<queue, sent, callbacks, calls>>]_vars

----------------------------------------------------------------------------
(* C35 *)

\* C35: reconnect() changes nothing while the client has no connection; while
\* it has one, reconnect() disconnects it and creates one connection, the
\* next one, which becomes the connection of the client and starts its first
\* attempt at once, and changes nothing else.
C35_ReconnectFrame ==
    LET r == ClientReconnect(State)
    IN  /\ connection = 0 => r = State
        /\ (connection # 0 /\ connectionCounter < MaxConn) =>
             /\ r.connectionCounter = connectionCounter + 1
             /\ r.connection = connectionCounter + 1
             /\ r.timers = timers
             /\ r.transports =
                  [transports EXCEPT
                     ![connection] = TransportClosed,
                     ![connectionCounter + 1] = [state |-> "connecting", attempts |-> 1]]
             /\ r = [State EXCEPT !.connectionCounter = r.connectionCounter,
                                  !.connection = r.connection,
                                  !.transports = r.transports,
                                  !.uri = r.uri]

\* reconnect() has replaced the open connection 1 by connection 2, which is
\* connecting, and disconnect() then reconnect() has left the client without
\* connection: the counter is still 2
C35_Witness ==
    /\ connectionCounter = 2
    /\ connection = 0
    /\ transports[1] = TransportClosed
    /\ transports[2] = TransportClosed
    /\ timers = {}

----------------------------------------------------------------------------
(* C36 *)

\* isConnected()
IsConnected == connection # 0 /\ TransportIsConnected(transports[connection])

\* C36: once isReady() is true it is true in every later state, whatever the
\* step: disconnect(), reconnect(), the close of the connection by the peer,
\* the delayed connect, a new handshake.
C36_ReadinessSticky == [][ready => ready']_vars

\* isReady() is true and isConnected() is false: after disconnect(), and while
\* the connection which follows an unexpected close waits for its delayed
\* connect
C36_Witness ==
    /\ ready
    /\ ~IsConnected
    /\ \/ connection = 0
       \/ connection \in timers

----------------------------------------------------------------------------
(* C37 *)

\* the client state after disconnect() in the client state s, then connect(),
\* once the connection made by connect() has got open
Reconnected(s) ==
    LET c == ClientConnect(ClientDisconnect(s))
    IN  OnConnected([c EXCEPT !.transports[c.connection] = TransportOpened(@)],
                    c.connection)

\* disconnect() in the client state s leaves the queue, the callbacks, the next
\* command id, the session id, the readiness and the frames sent as they are,
\* and changes nothing when it is called again, or without connection
DisconnectKeeps(s) ==
    LET d == ClientDisconnect(s)
    IN  /\ d = [s EXCEPT !.connection = d.connection, !.transports = d.transports]
        /\ s.connection = 0 => d = s
        /\ ClientDisconnect(d) = d

\* after disconnect() in the client state s and connect(), the handshake of
\* the connection made by connect() hands the frames of the queue of s to that
\* connection, which is open, in their order
FlushedAfterConnect(s) ==
    LET o == Reconnected(s)
        flushed == [k \in 1..Len(s.queue) |->
                       [frame |-> s.queue[k], open |-> TRUE, queued |-> TRUE]]
    IN  /\ o.queue = s.queue
        /\ o.sent = s.sent
        /\ \A sid \in Sids, isNew \in BOOLEAN :
             LET r == ProcessMessage(o, HelloMessage(sid, isNew), Silent, FALSE)
             IN  r.queue = <<>> /\ r.sent = s.sent \o flushed

\* C37: disconnect() leaves the queue, the callbacks, the next command id, the
\* session id and the readiness as they are; disconnect() without connection
\* changes nothing, so a second disconnect() changes nothing; and the frames
\* which were in the queue at disconnect() are all handed, in their order, to
\* the connection made by a later connect(), when it delivers its handshake.
C37_DisconnectFrame ==
    /\ DisconnectKeeps(State)
    /\ connectionCounter < MaxConn => FlushedAfterConnect(State)

\* disconnect() was called with a frame in the queue, before any handshake;
\* the connection made by connect() afterwards has delivered the handshake,
\* and the frame has been handed to it
C37_Witness ==
    /\ connectionCounter = 2
    /\ connection = 2
    /\ transports[1] = TransportClosed
    /\ TransportIsConnected(transports[2])
    /\ Heard(events, "ready") = 1
    /\ queue = <<>>
    /\ Len(sent) = 1 /\ sent[1].queued /\ sent[1].open
    /\ callbacks = {1}

====
